---- MODULE Spec2Model ----
(***************************************************************************)
(* Model of the query-filter engine of experimentalist/reading/parser.py:  *)
(* the PLY lexer built by Lexer(), the PLY LALR parser built by Parser(),  *)
(* whose grammar actions build a tinydb query (binOp, inclusionOp, andOp,  *)
(* orOp, notOp), and the evaluation of the built query on a record.        *)
(*                                                                         *)
(* Text is a sequence of one-character strings.  The lexer is modelled as  *)
(* it behaves on interpreters where lex.lex() succeeds (Python <= 3.10):   *)
(* the inline flag (?i) of t_BOOL sits in the middle of PLY's master       *)
(* regular expression and makes the whole expression case-insensitive.     *)
(*                                                                         *)
(* A second specification, LaunchSpec, models one call of decorated_task,  *)
(* the wrapper launch() of experimentalist/launcher.py puts around the     *)
(* task function: run_info.status, the logger, the scheduler branch.       *)
(***************************************************************************)
EXTENDS Integers, Sequences, FiniteSets, TLC

VARIABLES
    input,      \* lexer.lexdata: the expression text handed to parser.parse
    lexpos,     \* lexer.lexpos: index of the next character to lex (1-based)
    lookahead,  \* the parser's lookahead token, NoTok when it has none
    symstack,   \* the parser's symbol stack
    state,      \* "parsing", "compiled" (parse returned) or "error" (it raised)
    error,      \* the exception that escaped parser.parse, NoError when none
    pred,       \* the query parser.parse returned (prefix form), <<>> before
    rec,        \* the record the query was last applied to
    result,     \* outcome of that application: "none", "true", "false", "TypeError"
    pc,         \* where a call of decorated_task stands, "idle" when there is none
    cfg,        \* the configuration of the run, run_info.status included
    env,        \* what the run was launched with (seeding function, interpreter mode)
    logger,     \* the local variable logger: "unbound", "None" or "Logger"
    calls,      \* the calls made so far that act outside decorated_task, in order
    raised      \* the exceptions raised so far, in order

parserVars == <<input, lexpos, lookahead, symstack, state, error, pred, rec, result>>

launchVars == <<pc, cfg, env, logger, calls, raised>>

vars == <<input, lexpos, lookahead, symstack, state, error, pred, rec, result,
          pc, cfg, env, logger, calls, raised>>

---------------------------------------------------------------------------
(* Characters *)

Digits == {"0", "1", "2", "3", "4", "5", "6", "7", "8", "9"}

LowerCase == {"a", "b", "c", "d", "e", "f", "g", "h", "i", "j", "k", "l", "m",
              "n", "o", "p", "q", "r", "s", "t", "u", "v", "w", "x", "y", "z"}

UpperCase == {"A", "B", "C", "D", "E", "F", "G", "H", "I", "J", "K", "L", "M",
              "N", "O", "P", "Q", "R", "S", "T", "U", "V", "W", "X", "Y", "Z"}

\* The class [a-zA-Z_\d] of t_ID.
IdChars == LowerCase \cup UpperCase \cup Digits \cup {"_"}

\* t_ignore = ' \t'
t_ignore == {" ", "\t"}

\* Code-point order of the characters the model's strings are made of
\* (Python compares str values by code point).
CharOrd(c) ==
    CASE c = " " -> 32
      [] c = "'" -> 39
      [] c = "." -> 46
      [] c = "1" -> 49
      [] c = "5" -> 53
      [] c = "A" -> 65
      [] c = "B" -> 66
      [] c = "_" -> 95
      [] c = "a" -> 97
      [] c = "b" -> 98
      [] c = "c" -> 99
      [] c = "x" -> 120
      [] OTHER -> 127

\* The upper-case partner of the lower-case letters the rules spell out
\* ("true", "false", "in").
UpperOf(c) ==
    CASE c = "t" -> "T"
      [] c = "r" -> "R"
      [] c = "u" -> "U"
      [] c = "e" -> "E"
      [] c = "f" -> "F"
      [] c = "a" -> "A"
      [] c = "l" -> "L"
      [] c = "s" -> "S"
      [] c = "i" -> "I"
      [] c = "n" -> "N"
      [] OTHER -> c

---------------------------------------------------------------------------
(* Regular expressions of the token rules.  Each Match operator gives the  *)
(* index just past the match that starts at index i of s, or 0 when the    *)
(* rule does not match there.                                              *)

RECURSIVE RunEnd(_, _, _)
\* First index >= i of s whose character is not in class (Len(s)+1 if none).
RunEnd(s, i, class) ==
    IF i <= Len(s) /\ s[i] \in class THEN RunEnd(s, i + 1, class) ELSE i

RECURSIVE FindChar(_, _, _)
\* First index >= i of s holding character c, 0 if none.
FindChar(s, i, c) ==
    IF i > Len(s) THEN 0
    ELSE IF s[i] = c THEN i
    ELSE FindChar(s, i + 1, c)

\* Whether word (lower case) stands at index i of s, in any letter case.
MatchWord(s, i, word) ==
    /\ i + Len(word) - 1 <= Len(s)
    /\ \A j \in 1..Len(word) :
          s[i + j - 1] = word[j] \/ s[i + j - 1] = UpperOf(word[j])

\* t_LIST: r'\[[^\]]*\]'
MatchLIST(s, i) ==
    IF i <= Len(s) /\ s[i] = "["
    THEN LET j == FindChar(s, i + 1, "]") IN IF j = 0 THEN 0 ELSE j + 1
    ELSE 0

\* t_BOOL: r'(?i)(true|false)'
MatchBOOL(s, i) ==
    IF MatchWord(s, i, <<"t", "r", "u", "e">>) THEN i + 4
    ELSE IF MatchWord(s, i, <<"f", "a", "l", "s", "e">>) THEN i + 5
    ELSE 0

\* t_STRING: r'\'(.*?)\'' (the dot matches no newline)
MatchSTRING(s, i) ==
    IF i <= Len(s) /\ s[i] = "'"
    THEN LET j == FindChar(s, i + 1, "'")
             n == FindChar(s, i + 1, "\n")
         IN  IF j = 0 \/ (n # 0 /\ n < j) THEN 0 ELSE j + 1
    ELSE 0

\* The quoted alternatives of t_SCALAR: \'[^\']*\' and \"[^\"]*\"
MatchQuoted(s, i, q) ==
    IF i <= Len(s) /\ s[i] = q
    THEN LET j == FindChar(s, i + 1, q) IN IF j = 0 THEN 0 ELSE j + 1
    ELSE 0

\* The numeric alternative of t_SCALAR: [0-9]+(\.[0-9]+)?
MatchNumber(s, i) ==
    IF i <= Len(s) /\ s[i] \in Digits
    THEN LET e == RunEnd(s, i, Digits)
         IN  IF e + 1 <= Len(s) /\ s[e] = "." /\ s[e + 1] \in Digits
             THEN RunEnd(s, e + 1, Digits)
             ELSE e
    ELSE 0

\* t_SCALAR: r'[0-9]+(\.[0-9]+)?|\'[^\']*\'|\"[^\"]*\"'
MatchSCALAR(s, i) ==
    IF MatchNumber(s, i) # 0 THEN MatchNumber(s, i)
    ELSE IF MatchQuoted(s, i, "'") # 0 THEN MatchQuoted(s, i, "'")
    ELSE MatchQuoted(s, i, "\"")

RECURSIVE DottedEnd(_, _)
\* The tail (\.[a-zA-Z_\d]+)* of t_ID, from index e.
DottedEnd(s, e) ==
    IF e + 1 <= Len(s) /\ s[e] = "." /\ s[e + 1] \in IdChars
    THEN DottedEnd(s, RunEnd(s, e + 1, IdChars))
    ELSE e

\* t_ID: r'[a-zA-Z_\d]+(\.[a-zA-Z_\d]+)*'
MatchID(s, i) ==
    IF i <= Len(s) /\ s[i] \in IdChars
    THEN DottedEnd(s, RunEnd(s, i, IdChars))
    ELSE 0

\* The rules given as strings (t_EQUAL ... t_IN), in the order PLY tries them:
\* after every function rule, longest regular expression first.
StringRules == <<
    [type |-> "OR",                    text |-> <<"|">>],
    [type |-> "LPAREN",                text |-> <<"(">>],
    [type |-> "RPAREN",                text |-> <<")">>],
    [type |-> "EQUAL",                 text |-> <<"=", "=">>],
    [type |-> "LESS_THAN_OR_EQUAL",    text |-> <<"<", "=">>],
    [type |-> "GREATER_THAN_OR_EQUAL", text |-> <<">", "=">>],
    [type |-> "NOT_EQUAL",             text |-> <<"!", "=">>],
    [type |-> "IN",                    text |-> <<"i", "n">>],
    [type |-> "LESS_THAN",             text |-> <<"<">>],
    [type |-> "GREATER_THAN",          text |-> <<">">>],
    [type |-> "AND",                   text |-> <<"&">>],
    [type |-> "NOT",                   text |-> <<"~">>] >>

\* Whether string rule k matches at index i (letters in any case, see above).
MatchStringRule(s, i, k) ==
    LET t == StringRules[k].text
    IN  /\ i + Len(t) - 1 <= Len(s)
        /\ \A j \in 1..Len(t) :
              s[i + j - 1] = t[j] \/ s[i + j - 1] = UpperOf(t[j])

\* The first string rule matching at i, 0 if none.
FirstStringRule(s, i) ==
    IF \E k \in 1..Len(StringRules) : MatchStringRule(s, i, k)
    THEN CHOOSE k \in 1..Len(StringRules) :
            /\ MatchStringRule(s, i, k)
            /\ \A j \in 1..(k - 1) : ~MatchStringRule(s, i, j)
    ELSE 0

\* The rule that lexes the token at index i: the first alternative of the
\* master regular expression that matches there, "t_error" when none does.
RuleAt(s, i) ==
    IF MatchLIST(s, i) # 0 THEN "t_LIST"
    ELSE IF MatchBOOL(s, i) # 0 THEN "t_BOOL"
    ELSE IF MatchSTRING(s, i) # 0 THEN "t_STRING"
    ELSE IF MatchSCALAR(s, i) # 0 THEN "t_SCALAR"
    ELSE IF MatchID(s, i) # 0 THEN "t_ID"
    ELSE IF FirstStringRule(s, i) # 0 THEN "string"
    ELSE "t_error"

---------------------------------------------------------------------------
(* Values.  A Python value is [k, m, d, s]: k its kind ("int", "float",    *)
(* "bool", "str", "none", "dict"); a number is m / 10^d (a bool is 1 or    *)
(* 0); s is the text of a str.                                             *)

Value(k, m, d, s) == [k |-> k, m |-> m, d |-> d, s |-> s]

NoValue == Value("none", 0, 0, <<>>)

IntV(n) == Value("int", n, 0, <<>>)

FloatV(m, d) == Value("float", m, d, <<>>)

StrV(s) == Value("str", 0, 0, s)

BoolV(b) == Value("bool", IF b THEN 1 ELSE 0, 0, <<>>)

\* A field whose value is a nested mapping.
DictV == Value("dict", 0, 0, <<>>)

---------------------------------------------------------------------------
(* ast.literal_eval on the text a token rule matched.  The outcome is      *)
(* [exc, value, items]: exc is "none" or the exception class raised.       *)
(* Exact for text made of decimal digits, dots, letters, underscores,      *)
(* quotes, commas, brackets and blanks (no backslash, sign or exponent).   *)

Decoded(v) == [exc |-> "none", value |-> v, items |-> <<>>]

DecodedList(l) == [exc |-> "none", value |-> NoValue, items |-> l]

Raised(e) == [exc |-> e, value |-> NoValue, items |-> <<>>]

DigitVal(c) ==
    CASE c = "0" -> 0 [] c = "1" -> 1 [] c = "2" -> 2 [] c = "3" -> 3
      [] c = "4" -> 4 [] c = "5" -> 5 [] c = "6" -> 6 [] c = "7" -> 7
      [] c = "8" -> 8 [] c = "9" -> 9

RECURSIVE DigitsVal(_)
\* The number a sequence of digits writes; any dot in it is skipped.
DigitsVal(t) ==
    IF t = <<>> THEN 0
    ELSE LET c == t[Len(t)]
             r == DigitsVal(SubSeq(t, 1, Len(t) - 1))
         IN  IF c = "." THEN r ELSE 10 * r + DigitVal(c)

\* An integer or decimal literal: "01" is a syntax error, "00" is 0.
DecodeNumber(t) ==
    LET dot == FindChar(t, 1, ".")
    IN  IF dot = 0
        THEN IF Len(t) > 1 /\ t[1] = "0" /\ \E j \in 1..Len(t) : t[j] # "0"
             THEN Raised("SyntaxError")
             ELSE Decoded(IntV(DigitsVal(t)))
        ELSE Decoded(FloatV(DigitsVal(t), Len(t) - dot))

\* A quoted string literal: its contents.
DecodeQuoted(t) == Decoded(StrV(SubSeq(t, 2, Len(t) - 1)))

\* A bare name: only True, False and None are literals.
DecodeName(t) ==
    IF t = <<"T", "r", "u", "e">> THEN Decoded(BoolV(TRUE))
    ELSE IF t = <<"F", "a", "l", "s", "e">> THEN Decoded(BoolV(FALSE))
    ELSE IF t = <<"N", "o", "n", "e">> THEN Decoded(NoValue)
    ELSE Raised("ValueError")

IsDigitsText(t) == t # <<>> /\ \A j \in 1..Len(t) : t[j] \in Digits

\* digits '.' digits, with a digit on at least one side of the dot
IsFloatText(t) ==
    /\ Len(t) >= 2
    /\ \E p \in 1..Len(t) :
          /\ t[p] = "."
          /\ \A j \in (1..Len(t)) \ {p} : t[j] \in Digits

IsQuotedText(t) ==
    /\ Len(t) >= 2
    /\ t[1] \in {"'", "\""}
    /\ FindChar(t, 2, t[1]) = Len(t)

IsNameText(t) ==
    /\ t # <<>>
    /\ t[1] \notin Digits
    /\ \A j \in 1..Len(t) : t[j] \in IdChars

\* One literal: a list display's element, or a scalar token's text.
DecodeElement(t) ==
    IF IsQuotedText(t) THEN DecodeQuoted(t)
    ELSE IF IsDigitsText(t) \/ IsFloatText(t) THEN DecodeNumber(t)
    ELSE IF IsNameText(t) THEN DecodeName(t)
    ELSE Raised("SyntaxError")

RECURSIVE Strip(_)
\* t without leading and trailing blanks.
Strip(t) ==
    IF t = <<>> THEN t
    ELSE IF t[1] \in {" ", "\t", "\n"} THEN Strip(Tail(t))
    ELSE IF t[Len(t)] \in {" ", "\t", "\n"} THEN Strip(SubSeq(t, 1, Len(t) - 1))
    ELSE t

RECURSIVE SplitCommas(_, _, _, _)
\* The pieces of c between the commas that stand outside quotes, scanning
\* from index i: from is the start of the current piece, q the open quote.
SplitCommas(c, i, from, q) ==
    IF i > Len(c) THEN << Strip(SubSeq(c, from, Len(c))) >>
    ELSE IF q # "" THEN SplitCommas(c, i + 1, from, IF c[i] = q THEN "" ELSE q)
    ELSE IF c[i] \in {"'", "\""} THEN SplitCommas(c, i + 1, from, c[i])
    ELSE IF c[i] = ","
         THEN << Strip(SubSeq(c, from, i - 1)) >> \o SplitCommas(c, i + 1, i + 1, "")
    ELSE SplitCommas(c, i + 1, from, "")

\* A list display '[' ... ']': syntax is checked over the whole text first
\* (SyntaxError), then each element is converted (ValueError for a name).
DecodeList(t) ==
    LET parts == SplitCommas(SubSeq(t, 2, Len(t) - 1), 1, 1, "")
        elems == IF Len(parts) >= 2 /\ parts[Len(parts)] = <<>>
                 THEN SubSeq(parts, 1, Len(parts) - 1)
                 ELSE parts
        dec   == [j \in 1..Len(elems) |-> DecodeElement(elems[j])]
    IN  IF parts = << <<>> >> THEN DecodedList(<<>>)
        ELSE IF \E j \in 1..Len(elems) : dec[j].exc = "SyntaxError"
             THEN Raised("SyntaxError")
        ELSE IF \E j \in 1..Len(elems) : dec[j].exc = "ValueError"
             THEN Raised("ValueError")
        ELSE DecodedList([j \in 1..Len(elems) |-> dec[j].value])

\* ast.literal_eval(t.value), as the token rules call it.
literal_eval(t) == IF t[1] = "[" THEN DecodeList(t) ELSE DecodeElement(t)

---------------------------------------------------------------------------
(* Python's comparison operators on the values above.                      *)

IsNum(v) == v.k \in {"int", "float", "bool"}

RECURSIVE Pow10(_)
Pow10(d) == IF d = 0 THEN 1 ELSE 10 * Pow10(d - 1)

\* a and b numbers: a = b and a < b, compared exactly.
NumEq(a, b) == a.m * Pow10(b.d) = b.m * Pow10(a.d)

NumLt(a, b) == a.m * Pow10(b.d) < b.m * Pow10(a.d)

RECURSIVE StrLt(_, _)
\* s < t for str values: lexicographic, by code point.
StrLt(s, t) ==
    IF t = <<>> THEN FALSE
    ELSE IF s = <<>> THEN TRUE
    ELSE IF s[1] # t[1] THEN CharOrd(s[1]) < CharOrd(t[1])
    ELSE StrLt(Tail(s), Tail(t))

\* Equal value and equal kind.
SameKindEqual(a, b) ==
    /\ a.k = b.k
    /\ IF IsNum(a) THEN NumEq(a, b) ELSE a.s = b.s

\* Equality that also demands equal kinds.
PyEq_strict(a, b) == SameKindEqual(a, b)

\* a == b: numbers (bool included) by numeric value, str by text; values of
\* otherwise different kinds, and a mapping against a literal, are unequal.
PyEq(a, b) ==
    IF IsNum(a) /\ IsNum(b) THEN NumEq(a, b)
    ELSE IF a.k = "str" /\ b.k = "str" THEN a.s = b.s
    ELSE a.k = "none" /\ b.k = "none"

\* a < b: defined between two numbers and between two str values.
PyLt(a, b) ==
    IF IsNum(a) /\ IsNum(b) THEN NumLt(a, b) ELSE StrLt(a.s, b.s)

Orderable(a, b) == (IsNum(a) /\ IsNum(b)) \/ (a.k = "str" /\ b.k = "str")

Truth(b) == IF b THEN "true" ELSE "false"

\* operator.eq, ne, le, ge, lt, gt applied to (a, b): "true", "false", or
\* "TypeError" when Python does not order the two kinds.
Apply(opf, a, b) ==
    CASE opf = "eq" -> Truth(PyEq(a, b))
      [] opf = "ne" -> Truth(~PyEq(a, b))
      [] OTHER ->
            IF ~Orderable(a, b) THEN "TypeError"
            ELSE CASE opf = "lt" -> Truth(PyLt(a, b))
                   [] opf = "gt" -> Truth(PyLt(b, a))
                   [] opf = "le" -> Truth(~PyLt(b, a))
                   [] opf = "ge" -> Truth(~PyLt(a, b))

\* The table ops: the text of an operator token to the function applied.
ops(op) ==
    CASE op = <<"=", "=">> -> "eq"
      [] op = <<"!", "=">> -> "ne"
      [] op = <<"<", "=">> -> "le"
      [] op = <<">", "=">> -> "ge"
      [] op = <<"<">>      -> "lt"
      [] op = <<">">>      -> "gt"
      [] OTHER             -> "None"

---------------------------------------------------------------------------
(* Queries.  A query is the tree of tinydb query objects the grammar       *)
(* actions build, written in prefix form as a sequence of nodes            *)
(* [op, path, value, items]: "and" and "or" are followed by their two      *)
(* operands, "not" by its one; a test node (eq .. gt, one_of) carries the  *)
(* field path, and the literal or the list it tests against.               *)

Node(op, path, value, items) ==
    [op |-> op, path |-> path, value |-> value, items |-> items]

RECURSIVE Segments(_)
\* The pieces of t between its dots.
Segments(t) ==
    LET d == FindChar(t, 1, ".")
    IN  IF d = 0 THEN << t >>
        ELSE << SubSeq(t, 1, d - 1) >> \o Segments(SubSeq(t, d + 1, Len(t)))

\* A field path with one part per dot-separated segment of key.
_build_field_struct_split(key) == Segments(key)

\* Query()[key]: the path of the field is the one part key, whole.
_build_field_struct(key) == << key >>

\* opf(field, v): the test "field value <opf> v".
binOp(k, op, v) == << Node(ops(op), _build_field_struct(k), v, <<>>) >>

\* field.one_of(values): the test "field value in values".
inclusionOp(key, values) ==
    << Node("one_of", _build_field_struct(key), NoValue, values) >>

andOp(left, right) == << Node("and", <<>>, NoValue, <<>>) >> \o left \o right

orOp(left, right) == << Node("or", <<>>, NoValue, <<>>) >> \o left \o right

notOp(expr) == << Node("not", <<>>, NoValue, <<>>) >> \o expr

---------------------------------------------------------------------------
(* Records and the evaluation of a query on a record.  A record is the set *)
(* of its leaves [path, v]: path the keys from the top-level mapping down  *)
(* to the value v.  A key is text and may itself contain dots.             *)

Leaf(path, v) == [path |-> path, v |-> v]

RECURSIVE ResolvePath(_, _)
\* The loop "for part in path: value = value[part]" of the query's test,
\* started on the mapping r: [found, value]; found is FALSE when a lookup
\* raises KeyError (no such key) or TypeError (value is not a mapping).
ResolvePath(r, path) ==
    LET key  == path[1]
        here == {l \in r : l.path = << key >>}
        sub  == {l \in r : Len(l.path) > 1 /\ l.path[1] = key}
    IN  IF here # {}
        THEN IF Len(path) = 1
             THEN [found |-> TRUE, value |-> (CHOOSE l \in here : TRUE).v]
             ELSE [found |-> FALSE, value |-> NoValue]
        ELSE IF sub # {}
        THEN IF Len(path) = 1
             THEN [found |-> TRUE, value |-> DictV]
             ELSE ResolvePath({Leaf(Tail(l.path), l.v) : l \in sub}, Tail(path))
        ELSE [found |-> FALSE, value |-> NoValue]

\* A membership test that looks at the first element only.
RunTest_first(node, r) ==
    LET f == ResolvePath(r, node.path)
    IN  IF ~f.found THEN "false"
        ELSE IF node.op = "one_of"
             THEN Truth(node.items # <<>> /\ PyEq(f.value, node.items[1]))
        ELSE Apply(node.op, f.value, node.value)

\* A test that reads a field that does not resolve as None.
RunTest_none(node, r) ==
    LET f == ResolvePath(r, node.path)
    IN  IF node.op = "one_of"
        THEN Truth(\E j \in 1..Len(node.items) : PyEq(f.value, node.items[j]))
        ELSE Apply(node.op, f.value, node.value)

\* The test of a leaf node on a record: False when the path does not
\* resolve, else the comparison, which runs outside the handler that
\* catches KeyError and TypeError.
RunTest(node, r) ==
    LET f == ResolvePath(r, node.path)
    IN  IF ~f.found THEN "false"
        ELSE IF node.op = "one_of"
             THEN Truth(\E j \in 1..Len(node.items) : PyEq(f.value, node.items[j]))
        ELSE Apply(node.op, f.value, node.value)

RECURSIVE EvalFrom(_, _, _)
\* The query whose first node is q[i], applied to record r:
\* [res, next], next the index just past that query.
\*   and: self(value) and other(value);  or: self(value) or other(value);
\*   not: not self(value).
EvalFrom(q, i, r) ==
    LET n == q[i]
    IN  CASE n.op = "not" ->
                LET a == EvalFrom(q, i + 1, r)
                IN  [res  |-> CASE a.res = "true" -> "false"
                                [] a.res = "false" -> "true"
                                [] OTHER -> a.res,
                     next |-> a.next]
          [] n.op \in {"and", "or"} ->
                LET a == EvalFrom(q, i + 1, r)
                    b == EvalFrom(q, a.next, r)
                    stop == IF n.op = "and" THEN "false" ELSE "true"
                IN  [res  |-> IF a.res \in {stop, "TypeError"} THEN a.res ELSE b.res,
                     next |-> b.next]
          [] OTHER -> [res |-> RunTest(n, r), next |-> i + 1]

\* query(record)
Eval(q, r) == EvalFrom(q, 1, r).res

---------------------------------------------------------------------------
(* Tokens and the parser's tables.                                         *)

Tok(type, value, items) == [type |-> type, value |-> value, items |-> items]

NoTok == Tok("", NoValue, <<>>)

\* What the parser reads once lexer.token() returns None.
EndTok == Tok("$end", NoValue, <<>>)

NoError == [exc |-> "none", raisedBy |-> "none"]

Exception(exc, by) == [exc |-> exc, raisedBy |-> by]

\* reserved.get(text, 'ID')
reserved(text) == IF text = <<"i", "n">> THEN "IN" ELSE "ID"

CompTokens == {"EQUAL", "NOT_EQUAL", "LESS_THAN", "GREATER_THAN",
               "LESS_THAN_OR_EQUAL", "GREATER_THAN_OR_EQUAL"}

\* The table with AND below OR.
precedence_and_lowest == <<
    [assoc |-> "left", toks |-> {"AND"}],
    [assoc |-> "left", toks |-> {"OR"}],
    [assoc |-> "left", toks |-> {"NOT"}],
    [assoc |-> "left", toks |-> CompTokens \cup {"IN"}] >>

\* The table with NOT below AND and OR.
precedence_not_lowest == <<
    [assoc |-> "left", toks |-> {"NOT"}],
    [assoc |-> "left", toks |-> {"OR"}],
    [assoc |-> "left", toks |-> {"AND"}],
    [assoc |-> "left", toks |-> CompTokens \cup {"IN"}] >>

\* The tuple precedence, lowest level first.
precedence == <<
    [assoc |-> "left", toks |-> {"OR"}],
    [assoc |-> "left", toks |-> {"AND"}],
    [assoc |-> "left", toks |-> {"NOT"}],
    [assoc |-> "left", toks |-> CompTokens \cup {"IN"}] >>

\* Level of a terminal in the table, 0 when it is not listed.
PrecLevel(tok) ==
    IF \E l \in 1..Len(precedence) : tok \in precedence[l].toks
    THEN CHOOSE l \in 1..Len(precedence) : tok \in precedence[l].toks
    ELSE 0

PrecAssoc(tok) ==
    IF PrecLevel(tok) = 0 THEN "right" ELSE precedence[PrecLevel(tok)].assoc

\* The rightmost terminal of each production: it gives the production its
\* precedence.
ProdTerminal(prod) ==
    CASE prod = "binop"     -> "SCALAR"
      [] prod = "inclusion" -> "LIST"
      [] prod = "group"     -> "RPAREN"
      [] prod = "and"       -> "AND"
      [] prod = "or"        -> "OR"
      [] prod = "not"       -> "NOT"

\* How PLY settles a shift/reduce conflict between production prod and
\* terminal tok when it builds the table: TRUE for reduce.
PreferReduce(prod, tok) ==
    \/ PrecLevel(tok) < PrecLevel(ProdTerminal(prod))
    \/ /\ PrecLevel(tok) = PrecLevel(ProdTerminal(prod))
       /\ PrecAssoc(ProdTerminal(prod)) = "left"

\* Type of the k-th symbol from the top of the stack, "" below its bottom.
TopType(st, k) == IF Len(st) >= k THEN st[Len(st) - k + 1].type ELSE ""

\* The production whose right-hand side lies complete on top of the stack.
Handle(st) ==
    CASE TopType(st, 1) = "SCALAR" -> "binop"
      [] TopType(st, 1) = "LIST"   -> "inclusion"
      [] TopType(st, 1) = "RPAREN" -> "group"
      [] TopType(st, 1) = "expr" /\ TopType(st, 2) = "NOT" -> "not"
      [] TopType(st, 1) = "expr" /\ TopType(st, 2) = "AND" -> "and"
      [] TopType(st, 1) = "expr" /\ TopType(st, 2) = "OR"  -> "or"
      [] OTHER -> "none"

\* The terminals that may follow an expr.
FollowExpr == {"AND", "OR", "RPAREN", "$end"}

\* A grammar that lacks the production  expr : LPAREN expr RPAREN.
CanShift_no_group(st, tok) ==
    LET top == TopType(st, 1)
    IN  CASE top \in {"", "AND", "OR", "NOT"} -> tok \in {"ID", "NOT"}
          [] top = "ID"         -> tok \in CompTokens \cup {"IN"}
          [] top \in CompTokens -> tok = "SCALAR"
          [] top = "IN"         -> tok = "LIST"
          [] top = "expr"       -> tok \in {"AND", "OR"}
          [] OTHER -> FALSE

\* Whether the grammar lets terminal tok come next on the stack.
CanShift(st, tok) ==
    LET top == TopType(st, 1)
    IN  CASE top \in {"", "AND", "OR", "NOT", "LPAREN"} ->
                tok \in {"ID", "NOT", "LPAREN"}
          [] top = "ID"         -> tok \in CompTokens \cup {"IN"}
          [] top \in CompTokens -> tok = "SCALAR"
          [] top = "IN"         -> tok = "LIST"
          [] top = "expr"       ->
                tok \in {"AND", "OR"} \/ (tok = "RPAREN" /\ TopType(st, 2) = "LPAREN")
          [] OTHER -> FALSE

\* The entry of the LALR table for the state the stack st stands for and
\* lookahead tok: "shift", "accept", "error", or the production to reduce.
ParserAction(st, tok) ==
    LET h == Handle(st)
    IN  IF h \in {"binop", "inclusion", "group"}
        THEN IF tok \in FollowExpr THEN h ELSE "error"
        ELSE IF h \in {"not", "and", "or"}
        THEN IF tok \in {"AND", "OR"}
             THEN IF PreferReduce(h, tok) THEN h ELSE "shift"
             ELSE IF tok \in FollowExpr THEN h ELSE "error"
        ELSE IF TopType(st, 1) = "expr" /\ Len(st) = 1 /\ tok = "$end" THEN "accept"
        ELSE IF CanShift(st, tok) THEN "shift"
        ELSE "error"

\* A stack symbol: a shifted token, or an expr with the query p[0] built.
Sym(type, value, items, tree) ==
    [type |-> type, value |-> value, items |-> items, tree |-> tree]

\* The stack with its top n symbols replaced by an expr holding query.
Reduced(st, n, query) ==
    Append(SubSeq(st, 1, Len(st) - n), Sym("expr", NoValue, <<>>, query))

\* p[k] of a production with n right-hand symbols.
P(st, n, k) == st[Len(st) - n + k]

---------------------------------------------------------------------------
(* The expressions and records the model runs the engine on.               *)

MaxLeaves == 3   \* comparisons in a generated compound expression
MaxChunks == 3   \* pieces in a generated free-form text

Idents == { <<"x">>, <<"n">>, <<"a", ".", "b">> }

OpTexts == { <<"=", "=">>, <<"!", "=">>, <<"<", "=">>, <<">", "=">>, <<"<">>, <<">">> }

ScalarTexts == {
    <<"1">>, <<"5">>, <<"1", ".", "0">>, <<"1", ".", "5">>, <<"0", "1">>,
    <<"'", "a", "b", "c", "'">>, <<"'", "b", "'">>, <<"\"", "b", "\"">>,
    <<"T", "r", "u", "e">>, <<"F", "a", "l", "s", "e">>,
    <<"t", "r", "u", "e">>, <<"T", "R", "U", "E">>, <<"f", "a", "l", "s", "e">> }

ListTexts == {
    <<"[", "'", "a", "'", ",", "'", "b", "'", ",", "'", "c", "'", "]">>,
    <<"[", "1", ",", "2", ",", "3", "]">>,
    <<"[", "1", ".", "0", ",", " ", "T", "r", "u", "e", ",", "]">>,
    <<"[", "]">>,
    <<"[", "b", "]">>,
    <<"[", "1", ",", ",", "2", "]">> }

\* The text of a comparison, of a membership test, and of ~( ... ).
CompText(id, op, v) == id \o op \o v

MemberText(id, l) == id \o <<" ", "i", "n", " ">> \o l

NegText(a) == <<"~", "(">> \o a \o <<")">>

\* One comparison or one membership test, bare and as ~( ... ).
AtomInputs ==
    LET atoms == {CompText(id, op, v) : id \in Idents, op \in OpTexts, v \in ScalarTexts}
                 \cup {MemberText(id, l) : id \in Idents, l \in ListTexts}
    IN  atoms \cup {NegText(a) : a \in atoms}

\* The comparisons compound expressions are made of.
Comparisons == <<
    <<"x", "=", "=", "1">>,
    <<"n", "<", "5">>,
    <<"a", ".", "b", " ", "i", "n", " ", "[", "1", ",", "2", ",", "3", "]">> >>

Cmp(k) == Comparisons[((k - 1) % Len(Comparisons)) + 1]

RECURSIVE Exprs(_, _), Operands(_, _)
\* The expressions whose comparisons are Cmp(lo) .. Cmp(hi), in this order,
\* joined by & and |, each compound operand bare, in parentheses, or in
\* parentheses under ~.
Exprs(lo, hi) ==
    IF lo = hi THEN {Cmp(lo)}
    ELSE UNION { {l \o op \o r : l \in Operands(lo, k), r \in Operands(k + 1, hi),
                                  op \in {<<"&">>, <<"|">>}} : k \in lo..(hi - 1) }

Operands(lo, hi) ==
    IF lo = hi THEN Exprs(lo, hi)
    ELSE Exprs(lo, hi)
         \cup {<<"(">> \o e \o <<")">> : e \in Exprs(lo, hi)}
         \cup {<<"~", "(">> \o e \o <<")">> : e \in Exprs(lo, hi)}

ExprInputs == UNION {Operands(1, n) : n \in 1..MaxLeaves}

CmpTexts == {Comparisons[k] : k \in 1..Len(Comparisons)}

AndOrTexts == { <<"&">>, <<"|">> }

\* Every choice of comparisons in the shapes  A o B o C,  A o ~B o C,
\* ~A o B,  (A o B) o C  and  ~(A o B).
ShapeInputs ==
    {a \o o \o n \o b \o q \o c : a \in CmpTexts, b \in CmpTexts, c \in CmpTexts,
                                   o \in AndOrTexts, q \in AndOrTexts,
                                   n \in { <<>>, <<"~">> }}
    \cup {<<"~">> \o a \o o \o b : a \in CmpTexts, b \in CmpTexts, o \in AndOrTexts}
    \cup {<<"(">> \o a \o o \o b \o <<")">> \o q \o c :
             a \in CmpTexts, b \in CmpTexts, c \in CmpTexts,
             o \in AndOrTexts, q \in AndOrTexts}
    \cup {<<"~", "(">> \o a \o o \o b \o <<")">> :
             a \in CmpTexts, b \in CmpTexts, o \in AndOrTexts}

RawChunks == {
    <<"x">>, <<"i", "n">>, <<".">>, <<"=", "=">>, <<"1">>, <<"t", "r", "u", "e">>,
    <<"@">>, <<" ">>, <<"[", "b", "]">>, <<"(">>, <<")">> }

RECURSIVE Texts(_)
\* The texts made of exactly n chunks.
Texts(n) ==
    IF n = 0 THEN { <<>> }
    ELSE {t \o c : t \in Texts(n - 1), c \in RawChunks}

RawInputs == UNION {Texts(n) : n \in 0..MaxChunks}

\* Texts that are no expression, and texts of identifier-like runs.
ErrorInputs == {
    <<"a", "@", "1">>,                                        \* a@1
    <<"a", "=", "=", "1", "@">>,                              \* a==1@
    <<"1", " ", "@">>,                                        \* 1 @
    <<"a", "=", "=", "1", " ", "b", "=", "=", "2">>,          \* a==1 b==2
    <<"a", "=", "=", " ", "=", "=">>,                         \* a== ==
    <<"1", "=", "=", "a">>,                                   \* 1==a
    <<"(", "a", "=", "=", "1">>,                              \* (a==1
    <<"a", "=", "=", "1", ")">>,                              \* a==1)
    <<"(", "(", "a", "=", "=", "1", ")">>,                    \* ((a==1)
    <<"a", "=", "=", "1", "&">>,                              \* a==1&
    <<"a", "=", "=", "1", "&", "|", "b", "=", "=", "2">>,     \* a==1&|b==2
    <<"a", "=", "=", "1", "&", "b", "=", "=", "2", ")">>,     \* a==1&b==2)
    <<"a", "<", "1", " ", "(", "b", "<", "2", ")">>,          \* a<1 (b<2)
    <<"a", " ", "I", "N", " ", "[", "1", "]">>,               \* a IN [1]
    <<"i", "n", "d", "e", "x", "=", "=", "1">>,               \* index==1
    <<"i", "n", ".", "x", "=", "=", "1">>,                    \* in.x==1
    <<"I", "N", "=", "=", "1">>,                              \* IN==1
    <<"a", ".", "b", "_", "1", ".", "c", "2", "=", "=", "1">>,\* a.b_1.c2==1
    <<"i", "n", " ", "i", "n", " ", "[", "1", "]">>,          \* in in [1]
    <<"t", "r", "u", "e", "_", "x", "=", "=", "1">>,          \* true_x==1
    <<"T", "r", "u", "e", "_", "x", "=", "=", "1">>,          \* True_x==1
    <<"F", "a", "l", "s", "e", "x", "<", "5">>,               \* Falsex<5
    <<"1", "a", "=", "=", "1">>,                              \* 1a==1
    <<"a", ".", ".", "b", "=", "=", "1">> }                   \* a..b==1

Inputs == AtomInputs \cup ExprInputs \cup ShapeInputs \cup RawInputs \cup ErrorInputs

FieldValues == {
    IntV(1), IntV(5), FloatV(10, 1), BoolV(TRUE),
    StrV(<<"a", "b", "c">>), StrV(<<"b">>) }

FieldPaths == {
    << <<"x">> >>, << <<"n">> >>, << <<"a">> >>,
    << <<"a">>, <<"b">> >>,            \* {"a": {"b": v}}
    << <<"a", ".", "b">> >> }          \* {"a.b": v}

Records ==
    { {} }
    \cup { {Leaf(p, v)} : p \in FieldPaths, v \in FieldValues }
    \cup { {Leaf(<< <<"x">> >>, IntV(1)), Leaf(<< <<"n">> >>, v)} : v \in FieldValues }

---------------------------------------------------------------------------
(* The state machine: parser.parse(input, lexer=lexer), then the returned  *)
(* query applied to records.                                               *)

\* The launcher's variables while no run is launched.
NoCfg == [use_version_manager |-> FALSE, use_logger |-> FALSE, use_scheduler |-> FALSE,
          seed |-> FALSE, status |-> "none"]

NoEnv == [seeding_function |-> FALSE, debug |-> TRUE, valid_keys |-> TRUE]

Init ==
    /\ input \in Inputs
    /\ lexpos = 1
    /\ lookahead = NoTok
    /\ symstack = <<>>
    /\ state = "parsing"
    /\ error = NoError
    /\ pred = <<>>
    /\ rec = {}
    /\ result = "none"
    /\ pc = "idle"
    /\ cfg = NoCfg
    /\ env = NoEnv
    /\ logger = "unbound"
    /\ calls = <<>>
    /\ raised = <<>>

\* Where lexer.token() starts matching: past the ignored characters.
TokStart == RunEnd(input, lexpos, t_ignore)

\* The parser asks the lexer for a token.
NeedToken == state = "parsing" /\ lookahead = NoTok

\* The text a rule matched, given the index just past it.
Matched(e) == SubSeq(input, TokStart, e - 1)

\* A token function returns its token: it becomes the lookahead.
Return(tok, e) ==
    /\ lookahead' = tok
    /\ lexpos' = e
    /\ UNCHANGED <<input, symstack, state, error, pred, rec, result, launchVars>>

\* An exception leaves parser.parse.
Raise(exc, by) ==
    /\ state' = "error"
    /\ error' = Exception(exc, by)
    /\ UNCHANGED <<input, lexpos, lookahead, symstack, pred, rec, result, launchVars>>

\* A rule whose token value is ast.literal_eval of the matched text.
LiteralToken(type, e) ==
    LET dec == literal_eval(Matched(e))
    IN  IF dec.exc # "none" THEN Raise(dec.exc, "literal_eval")
        ELSE Return(Tok(type, dec.value, dec.items), e)

t_LIST ==
    /\ NeedToken
    /\ RuleAt(input, TokStart) = "t_LIST"
    /\ LiteralToken("LIST", MatchLIST(input, TokStart))

t_BOOL ==
    /\ NeedToken
    /\ RuleAt(input, TokStart) = "t_BOOL"
    /\ LiteralToken("SCALAR", MatchBOOL(input, TokStart))

t_STRING ==
    /\ NeedToken
    /\ RuleAt(input, TokStart) = "t_STRING"
    /\ LiteralToken("SCALAR", MatchSTRING(input, TokStart))

t_SCALAR ==
    /\ NeedToken
    /\ RuleAt(input, TokStart) = "t_SCALAR"
    /\ LiteralToken("SCALAR", MatchSCALAR(input, TokStart))

t_ID ==
    /\ NeedToken
    /\ RuleAt(input, TokStart) = "t_ID"
    /\ LET e == MatchID(input, TokStart)
       IN  Return(Tok(reserved(Matched(e)), StrV(Matched(e)), <<>>), e)

\* One of the rules given as strings: the token carries the matched text.
StringToken ==
    /\ NeedToken
    /\ RuleAt(input, TokStart) = "string"
    /\ LET k == FirstStringRule(input, TokStart)
           e == TokStart + Len(StringRules[k].text)
       IN  Return(Tok(StringRules[k].type, StrV(Matched(e)), <<>>), e)

\* No rule matches: raise SyntaxError('Illegal character ...').
t_error ==
    /\ NeedToken
    /\ TokStart <= Len(input)
    /\ RuleAt(input, TokStart) = "t_error"
    /\ Raise("SyntaxError", "t_error")

\* The input is used up: the lookahead is $end.
EndOfInput ==
    /\ NeedToken
    /\ TokStart > Len(input)
    /\ Return(EndTok, TokStart)

\* The parser has its lookahead and the table gives action act.
Parsing(act) ==
    /\ state = "parsing"
    /\ lookahead # NoTok
    /\ ParserAction(symstack, lookahead.type) = act

\* A reduction: the production's function sets p[0].
Reduce(n, query) ==
    /\ symstack' = Reduced(symstack, n, query)
    /\ UNCHANGED <<input, lexpos, lookahead, state, error, pred, rec, result, launchVars>>

Shift ==
    /\ Parsing("shift")
    /\ symstack' = Append(symstack,
                          Sym(lookahead.type, lookahead.value, lookahead.items, <<>>))
    /\ lookahead' = NoTok
    /\ UNCHANGED <<input, lexpos, state, error, pred, rec, result, launchVars>>

\* expr : ID <comparison> SCALAR
p_expression_binop ==
    /\ Parsing("binop")
    /\ Reduce(3, binOp(P(symstack, 3, 1).value.s, P(symstack, 3, 2).value.s,
                       P(symstack, 3, 3).value))

\* expr : ID IN LIST
p_expression_inclusion ==
    /\ Parsing("inclusion")
    /\ Reduce(3, inclusionOp(P(symstack, 3, 1).value.s, P(symstack, 3, 3).items))

\* expr : LPAREN expr RPAREN
p_expression_group ==
    /\ Parsing("group")
    /\ Reduce(3, P(symstack, 3, 2).tree)

\* expr : expr AND expr
p_expression_and ==
    /\ Parsing("and")
    /\ Reduce(3, andOp(P(symstack, 3, 1).tree, P(symstack, 3, 3).tree))

\* expr : expr OR expr
p_expression_or ==
    /\ Parsing("or")
    /\ Reduce(3, orOp(P(symstack, 3, 1).tree, P(symstack, 3, 3).tree))

\* expr : NOT expr
p_expression_not ==
    /\ Parsing("not")
    /\ Reduce(2, notOp(P(symstack, 2, 2).tree))

\* An error function that drops the offending token and lets the parser go
\* on, failing only at the end of the input.
p_error_discard ==
    /\ Parsing("error")
    /\ IF lookahead = EndTok
       THEN Raise("SyntaxError", "p_error")
       ELSE /\ lookahead' = NoTok
            /\ UNCHANGED <<input, lexpos, symstack, state, error, pred, rec, result, launchVars>>

\* The table has no entry: raise SyntaxError(" Syntax error in input!").
p_error ==
    /\ Parsing("error")
    /\ Raise("SyntaxError", "p_error")

\* parser.parse returns the value of the one expr on the stack.
Accept ==
    /\ Parsing("accept")
    /\ state' = "compiled"
    /\ pred' = symstack[Len(symstack)].tree
    /\ UNCHANGED <<input, lexpos, lookahead, symstack, error, rec, result, launchVars>>

\* The record store applies the query to a record.  The query keeps no
\* state between applications, so a behaviour shows one of them.
Match ==
    /\ state = "compiled"
    /\ result = "none"
    /\ \E r \in Records :
          /\ rec' = r
          /\ result' = Eval(pred, r)
    /\ UNCHANGED <<input, lexpos, lookahead, symstack, state, error, pred, launchVars>>

Next ==
    \/ t_LIST
    \/ t_BOOL
    \/ t_STRING
    \/ t_SCALAR
    \/ t_ID
    \/ StringToken
    \/ t_error
    \/ EndOfInput
    \/ Shift
    \/ p_expression_binop
    \/ p_expression_inclusion
    \/ p_expression_group
    \/ p_expression_and
    \/ p_expression_or
    \/ p_expression_not
    \/ p_error
    \/ Accept
    \/ Match

Spec == Init /\ [][Next]_vars

---------------------------------------------------------------------------
(* Properties.                                                             *)

\* The query has been applied to rec.
Matched_ == result # "none"

\* The leaves of r that sit directly under top-level key id (id whole).
TopLeaf(r, id) == {l \in r : l.path = << id >>}

TopValue(r, id) == (CHOOSE l \in TopLeaf(r, id) : TRUE).v

\* r has no top-level key id.
NoTopKey(r, id) == \A l \in r : l.path[1] # id

DottedIdents == {id \in Idents : FindChar(id, 1, ".") # 0}

OrderTexts == { <<"<", "=">>, <<">", "=">>, <<"<">>, <<">">> }

\* The literal a scalar text writes, and the list a list text writes.
Lit(v) == literal_eval(v).value

Items(l) == literal_eval(l).items

\* v equals, under the == of the engine, some element of items.
EqualsOne(v, items) == \E j \in 1..Len(items) : Apply("eq", v, items[j]) = "true"

\* No key of r contains a dot.
PlainKeys(r) == \A l \in r : \A j \in 1..Len(l.path) : FindChar(l.path[j], 1, ".") = 0

\* C1 as stated: a comparison or membership test on a dotted identifier
\* resolves the field by one nested-mapping lookup per dot-separated
\* segment, so that {"a": {"b": 1}} matches "a.b==1" (stated for the
\* records whose keys hold no dot themselves).
C1_NestedWalk ==
    \A id \in DottedIdents :
        LET f == ResolvePath(rec, Segments(id))
        IN  /\ \A op \in OpTexts, v \in ScalarTexts :
                 (Matched_ /\ PlainKeys(rec) /\ input = CompText(id, op, v)) =>
                     result = IF f.found THEN Apply(ops(op), f.value, Lit(v)) ELSE "false"
            /\ \A l \in ListTexts :
                 (Matched_ /\ PlainKeys(rec) /\ input = MemberText(id, l)) =>
                     result = IF f.found THEN Truth(EqualsOne(f.value, Items(l)))
                              ELSE "false"

\* C1 amended: a comparison or membership test on a dotted identifier
\* resolves the field by a single lookup of the whole dotted text as one
\* top-level key; the field is absent (the test is false) when the record
\* has no such key, whatever nested mappings it holds.
C1_FlatLookup ==
    \A id \in DottedIdents :
        /\ \A op \in OpTexts, v \in ScalarTexts :
             (Matched_ /\ input = CompText(id, op, v)) =>
                 result = IF TopLeaf(rec, id) = {} THEN "false"
                          ELSE Apply(ops(op), TopValue(rec, id), Lit(v))
        /\ \A l \in ListTexts :
             (Matched_ /\ input = MemberText(id, l)) =>
                 result = IF TopLeaf(rec, id) = {} THEN "false"
                          ELSE Truth(EqualsOne(TopValue(rec, id), Items(l)))

\* {"a.b": 1} matches "a.b==1".
C1_Witness ==
    /\ input = CompText(<<"a", ".", "b">>, <<"=", "=">>, <<"1">>)
    /\ rec = {Leaf(<< <<"a", ".", "b">> >>, IntV(1))}
    /\ result = "true"

\* Kinds an ordering operator is specified for: number with number (a
\* Boolean counted with the numbers), string with string.
SameOrderKind(a, b) ==
    \/ a.k \in {"int", "float", "bool"} /\ b.k \in {"int", "float", "bool"}
    \/ a.k = "str" /\ b.k = "str"

\* C2: with the field present, an ordering comparison (<, >, <=, >=) of a
\* value and a literal that are not number-number or string-string yields
\* false and never raises.
C2_MismatchIsFalse ==
    \A id \in Idents, op \in OrderTexts, v \in ScalarTexts :
        ( /\ Matched_
          /\ input = CompText(id, op, v)
          /\ TopLeaf(rec, id) # {}
          /\ ~SameOrderKind(TopValue(rec, id), Lit(v)) )
        => result = "false"

\* C3: when the record has no key for the field, a comparison with any of
\* the six operators and a membership test are false, without raising, and
\* their negation ~( ... ) is true.
C3_AbsentIsFalse ==
    \A id \in Idents :
        LET atoms == {CompText(id, op, v) : op \in OpTexts, v \in ScalarTexts}
                     \cup {MemberText(id, l) : l \in ListTexts}
        IN  (Matched_ /\ NoTopKey(rec, id)) =>
                /\ input \in atoms => result = "false"
                /\ input \in {NegText(a) : a \in atoms} => result = "true"

\* {} against "~(x==1)" is true.
C3_Witness ==
    /\ input = NegText(CompText(<<"x">>, <<"=", "=">>, <<"1">>))
    /\ rec = {}
    /\ result = "true"

LiteralKinds == {"int", "float", "str", "bool"}

\* C4 as stated: with the field present, == of a value and a literal of two
\* different kinds is false and != is true, neither raising.
C4_KindsNeverEqual ==
    \A id \in Idents, v \in ScalarTexts :
        ( /\ Matched_
          /\ TopLeaf(rec, id) # {}
          /\ TopValue(rec, id).k \in LiteralKinds
          /\ TopValue(rec, id).k # Lit(v).k )
        => /\ input = CompText(id, <<"=", "=">>, v) => result = "false"
           /\ input = CompText(id, <<"!", "=">>, v) => result = "true"

\* C4 amended: == and != never raise; a value and a literal of two
\* different kinds are equal exactly when both are numbers (Integer, Float
\* or Boolean, true counting as 1) of the same numeric value, so a String
\* never equals a non-String.
C4_EqualByNumericValue ==
    \A id \in Idents, v \in ScalarTexts :
        ( /\ Matched_
          /\ TopLeaf(rec, id) # {}
          /\ TopValue(rec, id).k \in LiteralKinds
          /\ TopValue(rec, id).k # Lit(v).k )
        => LET a  == TopValue(rec, id)
               eq == IsNum(a) /\ IsNum(Lit(v)) /\ NumEq(a, Lit(v))
           IN  /\ input = CompText(id, <<"=", "=">>, v) => result = Truth(eq)
               /\ input = CompText(id, <<"!", "=">>, v) => result = Truth(~eq)

\* The Boolean true equals the Integer literal 1.
C4_Witness ==
    /\ input = CompText(<<"x">>, <<"=", "=">>, <<"1">>)
    /\ rec = {Leaf(<< <<"x">> >>, BoolV(TRUE))}
    /\ result = "true"

BoolTexts == {
    <<"t", "r", "u", "e">>, <<"T", "r", "u", "e">>, <<"T", "R", "U", "E">>,
    <<"f", "a", "l", "s", "e">>, <<"F", "a", "l", "s", "e">> }

\* C5: a boolean literal true / false in any letter case is lexed, without
\* raising, as a Scalar token carrying the corresponding Boolean.
C5_BoolAnyCase ==
    \A id \in Idents, op \in OpTexts, b \in BoolTexts :
        input = CompText(id, op, b) =>
            /\ state # "error"
            /\ lookahead.type = "SCALAR" =>
                   lookahead.value = BoolV(MatchWord(b, 1, <<"t", "r", "u", "e">>))

\* C6: compiling any text ends with a query, or with the lex error of
\* t_error, or with the parse error of p_error; no other failure escapes,
\* and a failure leaves no query.
C6_ThreeOutcomes ==
    /\ state = "error" => error.raisedBy \in {"t_error", "p_error"} /\ pred = <<>>
    /\ state = "compiled" => error = NoError /\ pred # <<>>
    /\ state = "parsing" => error = NoError /\ pred = <<>>

\* The queries of Comparisons, by hand.
CmpQueries == <<
    binOp(<<"x">>, <<"=", "=">>, IntV(1)),
    binOp(<<"n">>, <<"<">>, IntV(5)),
    inclusionOp(<<"a", ".", "b">>, << IntV(1), IntV(2), IntV(3) >>) >>

CmpIndex == 1..Len(Comparisons)

\* The text compiled to query q.
Compiles(text, q) == input = text => state # "error" /\ (state = "compiled" => pred = q)

\* C7: & binds tighter than |: "A | B & C" is Or(A, And(B, C)) and
\* "A & B | C" is Or(And(A, B), C), for all comparisons A, B, C.
C7_AndTighterThanOr ==
    \A i \in CmpIndex, j \in CmpIndex, k \in CmpIndex :
        /\ Compiles(Comparisons[i] \o <<"|">> \o Comparisons[j] \o <<"&">> \o Comparisons[k],
                    orOp(CmpQueries[i], andOp(CmpQueries[j], CmpQueries[k])))
        /\ Compiles(Comparisons[i] \o <<"&">> \o Comparisons[j] \o <<"|">> \o Comparisons[k],
                    orOp(andOp(CmpQueries[i], CmpQueries[j]), CmpQueries[k]))

\* "x==1|n<5&a.b in [1,2,3]" compiled to Or(x==1, And(n<5, a.b in [1,2,3])).
C7_Witness ==
    /\ input = Comparisons[1] \o <<"|">> \o Comparisons[2] \o <<"&">> \o Comparisons[3]
    /\ state = "compiled"
    /\ pred = orOp(CmpQueries[1], andOp(CmpQueries[2], CmpQueries[3]))

\* C8: ~ binds tighter than & and |: "~A & B" is And(Not(A), B) and
\* "~A | B" is Or(Not(A), B), for all comparisons A and B.
C8_NotTighterThanAndOr ==
    \A i \in CmpIndex, j \in CmpIndex :
        /\ Compiles(<<"~">> \o Comparisons[i] \o <<"&">> \o Comparisons[j],
                    andOp(notOp(CmpQueries[i]), CmpQueries[j]))
        /\ Compiles(<<"~">> \o Comparisons[i] \o <<"|">> \o Comparisons[j],
                    orOp(notOp(CmpQueries[i]), CmpQueries[j]))

\* "~x==1&n<5" compiled to And(Not(x==1), n<5).
C8_Witness ==
    /\ input = <<"~">> \o Comparisons[1] \o <<"&">> \o Comparisons[2]
    /\ state = "compiled"
    /\ pred = andOp(notOp(CmpQueries[1]), CmpQueries[2])

\* C9: a parenthesized sub-expression yields its own query whatever stands
\* outside: "(A | B) & C" is And(Or(A, B), C), "(A & B) | C" is
\* Or(And(A, B), C), "~(A & B)" is Not(And(A, B)) and "~(A | B)" is
\* Not(Or(A, B)), for all comparisons A, B, C.
C9_GroupingOverrides ==
    \A i \in CmpIndex, j \in CmpIndex :
        LET ab == Comparisons[i] \o <<"&">> \o Comparisons[j]
            ob == Comparisons[i] \o <<"|">> \o Comparisons[j]
            AB == andOp(CmpQueries[i], CmpQueries[j])
            OB == orOp(CmpQueries[i], CmpQueries[j])
        IN  /\ Compiles(<<"~", "(">> \o ab \o <<")">>, notOp(AB))
            /\ Compiles(<<"~", "(">> \o ob \o <<")">>, notOp(OB))
            /\ \A k \in CmpIndex :
                  /\ Compiles(<<"(">> \o ob \o <<")", "&">> \o Comparisons[k],
                              andOp(OB, CmpQueries[k]))
                  /\ Compiles(<<"(">> \o ab \o <<")", "|">> \o Comparisons[k],
                              orOp(AB, CmpQueries[k]))
                  /\ Compiles(<<"(">> \o ob \o <<")", "|">> \o Comparisons[k],
                              orOp(OB, CmpQueries[k]))
                  /\ Compiles(<<"(">> \o ab \o <<")", "&">> \o Comparisons[k],
                              andOp(AB, CmpQueries[k]))

\* "(x==1|n<5)&a.b in [1,2,3]" compiled to And(Or(x==1, n<5), a.b in [1,2,3]).
C9_Witness ==
    /\ input = <<"(">> \o Comparisons[1] \o <<"|">> \o Comparisons[2]
               \o <<")", "&">> \o Comparisons[3]
    /\ state = "compiled"
    /\ pred = andOp(orOp(CmpQueries[1], CmpQueries[2]), CmpQueries[3])

\* C10 as stated: with the field present, a membership test is true exactly
\* when the value equals, with no type coercion (same kind, same value), at
\* least one element of the list.
C10_NoCoercion ==
    \A id \in Idents, l \in ListTexts :
        (Matched_ /\ input = MemberText(id, l) /\ TopLeaf(rec, id) # {}) =>
            result = Truth(\E j \in 1..Len(Items(l)) :
                              SameKindEqual(TopValue(rec, id), Items(l)[j]))

\* C10 amended: with the field present, a membership test is true exactly
\* when the value equals, under the equality of == (numbers, Booleans
\* included, by numeric value; a String only an equal String), at least one
\* element of the list; it never raises.
C10_SameRuleAsEq ==
    \A id \in Idents, l \in ListTexts :
        (Matched_ /\ input = MemberText(id, l) /\ TopLeaf(rec, id) # {}) =>
            result = Truth(EqualsOne(TopValue(rec, id), Items(l)))

\* {"n": "b"} against "n in ['a','b','c']" is true.
C10_Witness ==
    /\ input = MemberText(<<"n">>, <<"[", "'", "a", "'", ",", "'", "b", "'", ",",
                                    "'", "c", "'", "]">>)
    /\ rec = {Leaf(<< <<"n">> >>, StrV(<<"b">>))}
    /\ result = "true"

---------------------------------------------------------------------------
(* The lexer run on its own over a text, as the scan the parser drives     *)
(* one token at a time.                                                    *)

\* The index just past the token lexed at token start i.
TokenEnd(s, i) ==
    CASE RuleAt(s, i) = "t_LIST"   -> MatchLIST(s, i)
      [] RuleAt(s, i) = "t_BOOL"   -> MatchBOOL(s, i)
      [] RuleAt(s, i) = "t_STRING" -> MatchSTRING(s, i)
      [] RuleAt(s, i) = "t_SCALAR" -> MatchSCALAR(s, i)
      [] RuleAt(s, i) = "t_ID"     -> MatchID(s, i)
      [] RuleAt(s, i) = "string"   -> i + Len(StringRules[FirstStringRule(s, i)].text)

\* The type of the token lexed at token start i.
TokenType(s, i) ==
    CASE RuleAt(s, i) = "t_LIST" -> "LIST"
      [] RuleAt(s, i) \in {"t_BOOL", "t_STRING", "t_SCALAR"} -> "SCALAR"
      [] RuleAt(s, i) = "t_ID" -> reserved(SubSeq(s, i, MatchID(s, i) - 1))
      [] RuleAt(s, i) = "string" -> StringRules[FirstStringRule(s, i)].type

\* Whether the rule at token start i hands its text to ast.literal_eval and
\* that raises.
DecodeFails(s, i) ==
    /\ RuleAt(s, i) \in {"t_LIST", "t_BOOL", "t_STRING", "t_SCALAR"}
    /\ literal_eval(SubSeq(s, i, TokenEnd(s, i) - 1)).exc # "none"

RECURSIVE IllegalAt(_, _)
\* The first index, scanning s from i by the rules' regular expressions,
\* where no rule matches; 0 when the scan reaches the end of s.
IllegalAt(s, i) ==
    LET b == RunEnd(s, i, t_ignore)
    IN  IF b > Len(s) THEN 0
        ELSE IF RuleAt(s, b) = "t_error" THEN b
        ELSE IllegalAt(s, TokenEnd(s, b))

\* C11: compiling a text that holds a character no token rule matches ends
\* with the lex error of t_error at that character, and returns no query.
C11_IllegalCharIsLexError ==
    (state # "parsing" /\ IllegalAt(input, 1) # 0) =>
        /\ state = "error"
        /\ error = Exception("SyntaxError", "t_error")
        /\ TokStart = IllegalAt(input, 1)
        /\ pred = <<>>

RECURSIVE LexTypes(_, _)
\* The types of the tokens the lexer yields scanning s from i, up to the end
\* of s, a character no rule matches, or a literal that fails to decode.
LexTypes(s, i) ==
    LET b == RunEnd(s, i, t_ignore)
    IN  IF b > Len(s) \/ RuleAt(s, b) = "t_error" \/ DecodeFails(s, b) THEN <<>>
        ELSE <<TokenType(s, b)>> \o LexTypes(s, TokenEnd(s, b))

RECURSIVE LexComplete(_, _)
\* Whether that scan reaches the end of s.
LexComplete(s, i) ==
    LET b == RunEnd(s, i, t_ignore)
    IN  IF b > Len(s) THEN TRUE
        ELSE IF RuleAt(s, b) = "t_error" \/ DecodeFails(s, b) THEN FALSE
        ELSE LexComplete(s, TokenEnd(s, b))

RECURSIVE TokensUpTo(_, _, _)
\* The number of tokens of that scan that end before index e.
TokensUpTo(s, i, e) ==
    LET b == RunEnd(s, i, t_ignore)
    IN  IF b > Len(s) \/ RuleAt(s, b) = "t_error" \/ DecodeFails(s, b) THEN 0
        ELSE IF TokenEnd(s, b) > e THEN 0
        ELSE 1 + TokensUpTo(s, TokenEnd(s, b), e)

---------------------------------------------------------------------------
(* The language of the grammar of p_expression_*, recognized top-down:     *)
(*   expr : term ((AND | OR) term)*                                        *)
(*   term : NOT term | LPAREN expr RPAREN                                  *)
(*        | ID <comparison> SCALAR | ID IN LIST                            *)
(* over a sequence of token types that ends with "$end".  A recognizer     *)
(* gives [ok, at]: at is the index after what it recognized, or the index  *)
(* of the first token that cannot continue an expression.                  *)

Recognized(j) == [ok |-> TRUE, at |-> j]

Offends(j) == [ok |-> FALSE, at |-> j]

RECURSIVE TermAt(_, _), RestAt(_, _), ExprAt(_, _)
TermAt(ts, i) ==
    CASE ts[i] = "NOT" -> TermAt(ts, i + 1)
      [] ts[i] = "LPAREN" ->
            LET e == ExprAt(ts, i + 1)
            IN  IF ~e.ok THEN e
                ELSE IF ts[e.at] = "RPAREN" THEN Recognized(e.at + 1)
                ELSE Offends(e.at)
      [] ts[i] = "ID" ->
            IF ts[i + 1] \in CompTokens
            THEN IF ts[i + 2] = "SCALAR" THEN Recognized(i + 3) ELSE Offends(i + 2)
            ELSE IF ts[i + 1] = "IN"
            THEN IF ts[i + 2] = "LIST" THEN Recognized(i + 3) ELSE Offends(i + 2)
            ELSE Offends(i + 1)
      [] OTHER -> Offends(i)

RestAt(ts, j) ==
    IF ts[j] \in {"AND", "OR"}
    THEN LET t == TermAt(ts, j + 1) IN IF t.ok THEN RestAt(ts, t.at) ELSE t
    ELSE Recognized(j)

ExprAt(ts, i) ==
    LET t == TermAt(ts, i) IN IF t.ok THEN RestAt(ts, t.at) ELSE t

\* The index of the first offending token of token types ts ("$end" counts
\* as the token after the last); 0 when ts is a complete expression.
Offending(ts) ==
    LET e == ExprAt(ts \o <<"$end">>, 1)
    IN  IF e.ok /\ e.at = Len(ts) + 1 THEN 0 ELSE e.at

\* The index, among the tokens of input, of the parser's lookahead.
LookaheadIndex ==
    TokensUpTo(input, 1, lexpos) + (IF lookahead = EndTok THEN 1 ELSE 0)

\* C12: parsing tokens that are no complete expression of the grammar ends
\* with the parse error of p_error at the first offending token (the end of
\* the input included) and returns no query; a query is returned only for
\* a complete expression.
C12_NonSentenceIsParseError ==
    (state # "parsing" /\ result = "none") =>
        LET ts  == LexTypes(input, 1)
            all == LexComplete(input, 1)
            off == Offending(ts)
        IN  /\ state = "compiled" => all /\ off = 0 /\ error = NoError
            /\ error.raisedBy = "p_error" =>
                  /\ state = "error" /\ error.exc = "SyntaxError"
                  /\ off # 0 /\ LookaheadIndex = off
                  /\ pred = <<>> /\ result = "none"
            /\ (off # 0 /\ (off <= Len(ts) \/ all)) => error.raisedBy = "p_error"

\* "a== ==" failed at its second == with a and == on the stack.
C12_Witness ==
    /\ input = <<"a", "=", "=", " ", "=", "=">>
    /\ state = "error"
    /\ error = Exception("SyntaxError", "p_error")
    /\ lookahead.type = "EQUAL"
    /\ Len(symstack) = 2
    /\ pred = <<>>

\* The lexer is asked for a token where a run of identifier characters and
\* single dots starts with a letter or an underscore, and the run is not
\* just the word true or false.
AtIdentifierRun ==
    /\ NeedToken
    /\ TokStart <= Len(input)
    /\ input[TokStart] \in IdChars \ Digits
    /\ MatchBOOL(input, TokStart) # MatchID(input, TokStart)

\* C13: such a run is lexed as one token, the IN token when its whole text
\* is "in" and otherwise an ID token carrying the whole text of the run.
C13_IdentifierRunIsOneToken ==
    [][AtIdentifierRun =>
           LET e == MatchID(input, TokStart)
           IN  /\ lookahead' = Tok(reserved(Matched(e)), StrV(Matched(e)), <<>>)
               /\ lexpos' = e
               /\ state' = "parsing"]_vars

---------------------------------------------------------------------------
(* experimentalist/launcher.py: one call of decorated_task(cfg), the task  *)
(* function wrapped by launch().  cfg holds base_config.use_version_manager, *)
(* base_config.use_logger, base_config.use_scheduler, whether user_config  *)
(* has a field seed, and run_info.status.  A call made outside             *)
(* decorated_task is recorded in calls as [fn, arg]; an exception in       *)
(* raised as [exc, by, status], status being run_info.status when it was   *)
(* raised.                                                                 *)

\* Status
STARTING == "STARTING"

RUNNING == "RUNNING"

COMPLETE == "COMPLETE"

FAILED == "FAILED"

\* How a call of a user-supplied function can end: it returns, raises an
\* Exception, or raises a BaseException that is no Exception
\* (KeyboardInterrupt, SystemExit).
UserOutcomes == {"return", "Exception", "BaseException"}

\* How a call into the logger, the version manager, the scheduler or the
\* file system can end.
CallOutcomes == {"return", "Exception"}

Call(fn, arg) == [fn |-> fn, arg |-> arg]

Exc(exc, by, status) == [exc |-> exc, by |-> by, status |-> status]

LaunchInit ==
    /\ pc = "called"
    /\ cfg \in [use_version_manager : BOOLEAN, use_logger : BOOLEAN,
                use_scheduler : BOOLEAN, seed : BOOLEAN, status : {"none"}]
    /\ env \in [seeding_function : BOOLEAN, debug : BOOLEAN, valid_keys : BOOLEAN]
    /\ logger = "unbound"
    /\ calls = <<>>
    /\ raised = <<>>
    /\ input = <<>>
    /\ lexpos = 1
    /\ lookahead = NoTok
    /\ symstack = <<>>
    /\ state = "idle"
    /\ error = NoError
    /\ pred = <<>>
    /\ rec = {}
    /\ result = "none"

\* cfg.update_dict({'run_info': {'status': name}})
update_status(name) == [cfg EXCEPT !.status = name]

\* An exception leaves decorated_task.
Propagate(exc, by) ==
    /\ pc' = "raised"
    /\ raised' = Append(raised, Exc(exc, by, cfg.status))

\* An exception raised inside the try block: an Exception enters the
\* handler of line 256, anything else leaves decorated_task.
RaiseInTry(exc, by, status) ==
    /\ pc' = IF exc = "Exception" THEN "except" ELSE "raised"
    /\ raised' = Append(raised, Exc(exc, by, status))

\* logger._log_configs(cfg) inside the try block, when there is a logger,
\* with run_info.status = status; then control goes to next.
LogInTry(status, next) ==
    IF logger = "Logger"
    THEN \E out \in CallOutcomes :
            IF out = "Exception"
            THEN RaiseInTry("Exception", "_log_configs", status) /\ UNCHANGED calls
            ELSE /\ calls' = Append(calls, Call("_log_configs", status))
                 /\ pc' = next
                 /\ UNCHANGED raised
    ELSE pc' = next /\ UNCHANGED <<calls, raised>>

\* Lines 178-183: _build_config, whose assert rejects an unknown key of
\* base_config.yaml, then run_info.status = STARTING.
_build_config ==
    /\ pc = "called"
    /\ IF env.debug /\ ~env.valid_keys
       THEN /\ Propagate("AssertionError", "_build_config")
            /\ UNCHANGED <<cfg, logger, calls>>
       ELSE /\ cfg' = update_status(STARTING)
            /\ pc' = "version_manager"
            /\ UNCHANGED <<logger, calls, raised>>
    /\ UNCHANGED <<env, parserVars>>

\* Lines 185-190: the working directory.
make_working_directory ==
    /\ pc = "version_manager"
    /\ \E out \in CallOutcomes :
          IF cfg.use_version_manager /\ out = "Exception"
          THEN Propagate("Exception", "make_working_directory")
          ELSE pc' = "logger" /\ UNCHANGED raised
    /\ UNCHANGED <<cfg, env, logger, calls, parserVars>>

\* Lines 192-199: logger is a Logger when use_logger, None otherwise.
make_logger ==
    /\ pc = "logger"
    /\ \E out \in CallOutcomes :
          IF cfg.use_logger /\ out = "Exception"
          THEN /\ Propagate("Exception", "logger")
               /\ UNCHANGED logger
          ELSE /\ logger' = IF cfg.use_logger THEN "Logger" ELSE "None"
               /\ pc' = IF cfg.use_scheduler THEN "assert_logger" ELSE "chdir"
               /\ UNCHANGED raised
    /\ UNCHANGED <<cfg, env, calls, parserVars>>

\* Lines 201-205: with use_scheduler, assert logger; the failed assertion
\* becomes an Exception.  The interpreter drops assert statements when it
\* runs optimized (python -O, __debug__ false).
assert_logger ==
    /\ pc = "assert_logger"
    /\ IF logger = "None" /\ env.debug
       THEN Propagate("Exception", "assert logger")
       ELSE pc' = "scheduler" /\ UNCHANGED raised
    /\ UNCHANGED <<cfg, env, logger, calls, parserVars>>

\* Line 206: the scheduler instance.
make_scheduler ==
    /\ pc = "scheduler"
    /\ \E out \in CallOutcomes :
          IF out = "Exception"
          THEN Propagate("Exception", "scheduler")
          ELSE pc' = "_make_job_command" /\ UNCHANGED raised
    /\ UNCHANGED <<cfg, env, logger, calls, parserVars>>

\* The job command built also when no logger bound log_dir.
_make_job_command_defaults ==
    /\ pc = "_make_job_command"
    /\ \E out \in CallOutcomes :
          IF out = "Exception"
          THEN Propagate("Exception", "_make_job_command")
          ELSE pc' = "_save_job_command" /\ UNCHANGED raised
    /\ UNCHANGED <<cfg, env, logger, calls, parserVars>>

\* Lines 208-214: the arguments parent_log_dir, log_dir and log_id are
\* locals bound only in the use_logger branch (lines 194-196): reading
\* them unbound raises UnboundLocalError before _make_job_command is called.
_make_job_command ==
    /\ pc = "_make_job_command"
    /\ \E out \in CallOutcomes :
          IF logger = "None"
          THEN Propagate("UnboundLocalError", "_make_job_command")
          ELSE IF out = "Exception"
          THEN Propagate("Exception", "_make_job_command")
          ELSE pc' = "_save_job_command" /\ UNCHANGED raised
    /\ UNCHANGED <<cfg, env, logger, calls, parserVars>>

\* Line 216: the job script script.sh is written in log_dir.
_save_job_command ==
    /\ pc = "_save_job_command"
    /\ \E out \in CallOutcomes :
          IF out = "Exception"
          THEN Propagate("Exception", "_save_job_command") /\ UNCHANGED calls
          ELSE /\ calls' = Append(calls, Call("_save_job_command", "script.sh"))
               /\ pc' = "submit_job"
               /\ UNCHANGED raised
    /\ UNCHANGED <<cfg, env, logger, parserVars>>

\* Lines 217-220: the job is submitted to the scheduler.
submit_job ==
    /\ pc = "submit_job"
    /\ \E out \in CallOutcomes :
          IF out = "Exception"
          THEN Propagate("Exception", "submit_job") /\ UNCHANGED calls
          ELSE /\ calls' = Append(calls, Call("submit_job", "script.sh"))
               /\ pc' = "log_submission"
               /\ UNCHANGED raised
    /\ UNCHANGED <<cfg, env, logger, parserVars>>

\* Line 223: logger._log_configs(cfg), then decorated_task returns.
log_submission ==
    /\ pc = "log_submission"
    /\ \E out \in CallOutcomes :
          IF out = "Exception"
          THEN Propagate("Exception", "_log_configs") /\ UNCHANGED calls
          ELSE /\ calls' = Append(calls, Call("_log_configs", cfg.status))
               /\ pc' = "returned"
               /\ UNCHANGED raised
    /\ UNCHANGED <<cfg, env, logger, parserVars>>

\* Lines 225-235, without use_scheduler: os.chdir(work_dir), and with a
\* logger the scheduler configuration read back from its metadata file.
chdir ==
    /\ pc = "chdir"
    /\ \E out \in CallOutcomes :
          IF out = "Exception"
          THEN Propagate("Exception", "chdir")
          ELSE pc' = "try" /\ UNCHANGED raised
    /\ UNCHANGED <<cfg, env, logger, calls, parserVars>>

\* Lines 236-240: inside the try block, run_info.status = RUNNING, logged
\* when there is a logger.
set_running ==
    /\ pc = "try"
    /\ cfg' = update_status(RUNNING)
    /\ LogInTry(RUNNING, "seeding")
    /\ UNCHANGED <<env, logger, parserVars>>

\* Lines 241-248: with a seeding function, assert that user_config has a
\* field seed (the failed assertion becomes an Exception), then call
\* seeding_function(cfg.user_config.seed).  When the assert is dropped and
\* the field is missing, reading it raises or yields no seed, as the
\* configuration class decides.
seeding_function ==
    /\ pc = "seeding"
    /\ IF ~env.seeding_function
       THEN pc' = "task" /\ UNCHANGED <<calls, raised>>
       ELSE IF ~cfg.seed /\ env.debug
       THEN RaiseInTry("Exception", "assert seed", cfg.status) /\ UNCHANGED calls
       ELSE \E out \in UserOutcomes, read \in CallOutcomes :
               IF ~cfg.seed /\ read = "Exception"
               THEN RaiseInTry("Exception", "user_config.seed", cfg.status)
                    /\ UNCHANGED calls
               ELSE /\ calls' = Append(calls, Call("seeding_function", out))
                    /\ IF out = "return"
                       THEN pc' = "task" /\ UNCHANGED raised
                       ELSE RaiseInTry(out, "seeding_function", cfg.status)
    /\ UNCHANGED <<cfg, env, logger, parserVars>>

\* Line 249: task_function(cfg, logger).
task_function ==
    /\ pc = "task"
    /\ \E out \in UserOutcomes :
          /\ calls' = Append(calls, Call("task_function", out))
          /\ IF out = "return"
             THEN pc' = "complete" /\ UNCHANGED raised
             ELSE RaiseInTry(out, "task_function", cfg.status)
    /\ UNCHANGED <<cfg, env, logger, parserVars>>

\* Lines 250-255: run_info.status = COMPLETE, logged when there is a
\* logger, then return None.
set_complete ==
    /\ pc = "complete"
    /\ cfg' = update_status(COMPLETE)
    /\ LogInTry(COMPLETE, "returned")
    /\ UNCHANGED <<env, logger, parserVars>>

\* Lines 256-261: except Exception: run_info.status = FAILED, logged when
\* there is a logger, then raise.
except_Exception ==
    /\ pc = "except"
    /\ cfg' = update_status(FAILED)
    /\ IF logger = "Logger"
       THEN \E out \in CallOutcomes :
               IF out = "Exception"
               THEN /\ raised' = Append(raised, Exc("Exception", "_log_configs", FAILED))
                    /\ UNCHANGED calls
               ELSE /\ calls' = Append(calls, Call("_log_configs", FAILED))
                    /\ UNCHANGED raised
       ELSE UNCHANGED <<calls, raised>>
    /\ pc' = "raised"
    /\ UNCHANGED <<env, logger, parserVars>>

LaunchNext ==
    \/ _build_config
    \/ make_working_directory
    \/ make_logger
    \/ assert_logger
    \/ make_scheduler
    \/ _make_job_command
    \/ _save_job_command
    \/ submit_job
    \/ log_submission
    \/ chdir
    \/ set_running
    \/ seeding_function
    \/ task_function
    \/ set_complete
    \/ except_Exception

LaunchSpec == LaunchInit /\ [][LaunchNext]_vars

---------------------------------------------------------------------------
(* Properties of a launched run.                                           *)

\* decorated_task has returned or raised.
Done == pc \in {"returned", "raised"}

Called(fn) == \E i \in 1..Len(calls) : calls[i].fn = fn

\* The task function was called and returned.
TaskReturned == \E i \in 1..Len(calls) : calls[i] = Call("task_function", "return")

\* Some exception was raised after run_info.status was set to RUNNING.
RaisedAfterRunning ==
    \E i \in 1..Len(raised) : raised[i].status \in {RUNNING, COMPLETE, FAILED}

\* The status the logger logged last, "none" when it logged nothing.
LastLogged ==
    LET logs == SelectSeq(calls, LAMBDA c : c.fn = "_log_configs")
    IN  IF logs = <<>> THEN "none" ELSE logs[Len(logs)].arg

\* The moves of run_info.status that go forward.
ForwardMoves == { <<"none", STARTING>>, <<STARTING, RUNNING>>,
                  <<RUNNING, COMPLETE>>, <<RUNNING, FAILED>> }

\* What C14 says of a state of a run without the scheduler.
StatusAsClaimed ==
    /\ (Called("seeding_function") \/ Called("task_function")) =>
           cfg.status \in {RUNNING, COMPLETE, FAILED}
    /\ Done =>
          /\ cfg.status = COMPLETE <=> TaskReturned
          /\ cfg.status = FAILED <=> RaisedAfterRunning
          /\ cfg.status = FAILED => pc = "raised" /\ Len(raised) = 1
          /\ (logger = "Logger" /\ cfg.status \in {COMPLETE, FAILED}) =>
                 LastLogged = cfg.status

\* C14: without the scheduler, run_info.status only moves forward through
\* STARTING, RUNNING (set before the seeding function and the task function
\* are called), then exactly one of COMPLETE and FAILED; it ends COMPLETE
\* exactly when the task function returned, and FAILED exactly when an
\* exception was raised after RUNNING was set, that exception being raised
\* again to the caller; with a logger the final status is logged.
C14_StatusProtocol ==
    /\ [](~cfg.use_scheduler => StatusAsClaimed)
    /\ [][~cfg.use_scheduler =>
             (cfg'.status = cfg.status \/ <<cfg.status, cfg'.status>> \in ForwardMoves)]_vars

\* C15: with use_scheduler the task function is never called in the
\* submitting process; without a logger (use_logger false) no job script is
\* written and no job is submitted, and decorated_task does not return: it
\* ends by raising an exception.
C15_SchedulerNeedsLogger ==
    cfg.use_scheduler =>
        /\ ~Called("task_function")
        /\ ~cfg.use_logger =>
              /\ ~Called("_save_job_command")
              /\ ~Called("submit_job")
              /\ pc \notin {"_save_job_command", "submit_job", "log_submission", "returned"}
              /\ Done => pc = "raised" /\ raised # <<>>

\* With use_scheduler and no logger, the run ended with the exception of
\* line 205, nothing written, nothing submitted.
C15_Witness ==
    /\ cfg.use_scheduler
    /\ ~cfg.use_logger
    /\ logger = "None"
    /\ pc = "raised"
    /\ raised = << Exc("Exception", "assert logger", STARTING) >>
    /\ calls = <<>>

====
